---- MODULE Spec2Model ----
(***************************************************************************)
(* A state-machine model of single_image_run.py: the command-line entry    *)
(* point, download_data_from_kaggle, create_dataloaders, get_model and     *)
(* train_and_test_model.  Library calls (kaggle CLI, torchvision, torch)   *)
(* are modelled by their observable outcome; an outcome that depends on    *)
(* the world outside the process is fixed by the env record chosen in Init.*)
(***************************************************************************)
EXTENDS Integers, Sequences, FiniteSets, TLC

\* ------------------------------------------------------------- bounds
MaxEpochs == 3
NumTrainBatches == 2
NumTestBatches == 2

\* ------------------------------------------------------------- inputs
None == "None"

\* --kaggle_json: flag absent (None), an empty string, or a path
KaggleJsonArgs == {None, "", "kaggle.json"}

\* --model as typed on the command line or passed by a caller
ModelArgs == {"resnet18", "resnet50", "vgg16"}

\* argparse choices=['resnet18', 'resnet50'] (line 170)
ModelChoices == {"resnet18", "resnet50"}

\* --num_epochs, type=int: any integer parses
EpochArgs == (0 - 1)..MaxEpochs

\* what is at output_dir when the process starts
DirStates == {"absent", "file", "empty", "nonempty"}

\* the module run as a script, or one of its functions called by an importer
Entries == {"__main__", "get_model", "download_data_from_kaggle"}

\* the world outside the process: does kaggle_json name a readable file, does
\* the kaggle CLI succeed, does output_dir hold train/ and test/ image folders
Envs == [credFile : BOOLEAN, kaggleOK : BOOLEAN, datasetOK : BOOLEAN]

\* ~/.kaggle before the run: not there, or left by an earlier run
KaggleStates == {[dir |-> FALSE, json |-> "absent", mode |-> "none"],
                 [dir |-> TRUE, json |-> "old", mode |-> "0o644"]}

\* permission bits shutil.copy carries over from the source file
SourceModes == {"0o644", "0o600"}

VARIABLES
    entry,          \* which top-level code runs
    args,           \* the parsed arguments / the call's arguments
    env,            \* outcomes of the outside world
    start,          \* output_dir, ~/.kaggle and best_model.pth as at start
    pc,             \* position in the code
    exc,            \* the uncaught exception, None while there is none
    outDir,         \* state of output_dir
    kaggle,         \* state of ~/.kaggle
    cliCalls,       \* invocations of the kaggle download CLI
    loaders,        \* train_loader, test_loader constructed
    model,          \* the model object get_model returned, "none" before
    optimizer,      \* criterion, optimizer and scheduler constructed
    params,         \* the model's parameters, as the count of optimizer steps
    best_accuracy,  \* <<numerator, denominator>>
    epoch,          \* the loop variable of line 83
    i,              \* training batches processed in this epoch
    j,              \* test batches processed in this epoch
    test_correct,
    test_total,
    test_accuracy,  \* <<numerator, denominator>>
    evalParams,     \* parameter values the test pass of this epoch ran on
    schedSteps,     \* calls of scheduler.step
    ckpt,           \* the file best_model.pth
    saved_epochs,   \* the epochs (1-based) at which torch.save ran
    printed,        \* the epoch numbers of the metrics lines printed
    accHist,        \* test accuracy of every completed epoch
    paramsHist      \* parameters at the end of every completed epoch

vars == <<entry, args, env, start, pc, exc, outDir, kaggle, cliCalls, loaders,
          model, optimizer, params, best_accuracy, epoch, i, j, test_correct,
          test_total, test_accuracy, evalParams, schedSteps, ckpt,
          saved_epochs, printed, accHist, paramsHist>>

fsVars == <<outDir, kaggle, cliCalls>>
buildVars == <<loaders, model, optimizer>>
trainVars == <<params, best_accuracy, epoch, i, j, test_correct, test_total,
               test_accuracy, evalParams, schedSteps, ckpt, saved_epochs,
               printed, accHist, paramsHist>>
constVars == <<entry, args, env, start>>

\* ------------------------------------------------------------- helpers

\* a > b on accuracies kept as fractions with positive denominators
Gt(a, b) == a[1] * b[2] > b[1] * a[2]

\* best_accuracy = 0.0 (line 82)
InitialBestNegative == <<0 - 1, 1>>
InitialBest == <<0, 1>>

\* if test_accuracy > best_accuracy (line 133)
ImprovesOrTies(acc, best) == ~Gt(best, acc)
Improves(acc, best) == Gt(acc, best)

\* for epoch in range(num_epochs) (line 83)
EpochsLeftInclusive(e, n) == e <= n
EpochsLeft(e, n) == e < n

\* Epoch [{epoch + 1}/...] (line 127)
PrintedEpochZeroBased(e) == e
PrintedEpoch(e) == e + 1

\* os.path.exists(output_dir) and os.listdir(output_dir) (line 44), for a
\* directory; a plain file is handled in download_check
DataPresentWhenEmpty(d) == d = "empty"
DataPresentExistsOnly(d) == d \in {"empty", "nonempty"}
DataPresent(d) == d = "nonempty"

\* not kaggle_json (line 49)
CredMissingIsNone(kj) == kj = None
CredMissing(kj) == kj \in {None, ""}

\* the if/elif/else of get_model (lines 143-148): the model built, or the error
GetModelDefault(name) ==
    IF name = "resnet50" THEN "resnet50" ELSE "resnet18"
GetModelResult(name) ==
    IF name = "resnet18" THEN "resnet18"
    ELSE IF name = "resnet50" THEN "resnet50"
    ELSE "ValueError_unsupported_model"

\* a forward pass under model.eval() and torch.no_grad() (lines 106-115)
EvalForwardUpdates(p) == p + 1
EvalForward(p) == p

\* torch.save(model.state_dict(), 'best_model.pth') (line 135)
TorchSave(p, e) == [kind |-> "run", params |-> p, epoch |-> e + 1]

\* the function returns to its caller: line 178/181 of the script, or the importer
ReturnTo(next) == IF entry = "__main__" THEN next ELSE "returned"

Raise(e) == pc' = "raised" /\ exc' = e

\* ------------------------------------------------------------- Init
Init ==
    /\ entry \in Entries
    /\ args \in [kaggle_json : KaggleJsonArgs, model : ModelArgs,
                 num_epochs : EpochArgs]
    /\ env \in Envs
    /\ outDir \in DirStates
    /\ ckpt \in {[kind |-> "absent", params |-> 0, epoch |-> 0],
                 [kind |-> "old", params |-> 0, epoch |-> 0]}
    /\ kaggle \in KaggleStates
    /\ start = [output_dir |-> outDir, kaggle |-> kaggle, ckpt |-> ckpt]
    /\ pc = CASE entry = "__main__" -> "parse_args"
              [] entry = "get_model" -> "get_model"
              [] OTHER -> "download_check"
    /\ exc = None
    /\ cliCalls = 0
    /\ loaders = FALSE
    /\ model = "none"
    /\ optimizer = FALSE
    /\ params = 0
    /\ best_accuracy = <<0, 1>>
    /\ epoch = 0
    /\ i = 0
    /\ j = 0
    /\ test_correct = 0
    /\ test_total = 0
    /\ test_accuracy = <<0, 1>>
    /\ evalParams = {}
    /\ schedSteps = 0
    /\ saved_epochs = <<>>
    /\ printed = <<>>
    /\ accHist = <<>>
    /\ paramsHist = <<>>

\* ------------------------------------------------------------- __main__

\* parser.parse_args(): --kaggle_json is required, --model has choices
parse_args ==
    /\ pc = "parse_args"
    /\ IF args.kaggle_json = None \/ args.model \notin ModelChoices
         THEN Raise("SystemExit")
         ELSE pc' = "download_check" /\ exc' = exc
    /\ UNCHANGED <<constVars, fsVars, buildVars, trainVars>>

\* ------------------------------------------- download_data_from_kaggle

\* lines 44-46
download_check ==
    /\ pc = "download_check"
    /\ IF outDir = "file"
         THEN Raise("NotADirectoryError")
         ELSE IF DataPresent(outDir)
           THEN pc' = ReturnTo("create_dataloaders") /\ exc' = exc
           ELSE pc' = "download_cred" /\ exc' = exc
    /\ UNCHANGED <<constVars, fsVars, buildVars, trainVars>>

\* lines 48-50
download_cred ==
    /\ pc = "download_cred"
    /\ IF CredMissing(args.kaggle_json)
         THEN Raise("ValueError_kaggle_json")
         ELSE pc' = "download_makedirs" /\ exc' = exc
    /\ UNCHANGED <<constVars, fsVars, buildVars, trainVars>>

\* lines 52-53
download_makedirs ==
    /\ pc = "download_makedirs"
    /\ kaggle' = [kaggle EXCEPT !.dir = TRUE]
    /\ pc' = "download_copy"
    /\ UNCHANGED <<constVars, exc, outDir, cliCalls, buildVars, trainVars>>

\* line 54
download_copy ==
    /\ pc = "download_copy"
    /\ IF env.credFile
         THEN /\ \E m \in SourceModes :
                    kaggle' = [kaggle EXCEPT !.json = "copied", !.mode = m]
              /\ pc' = "download_chmod"
              /\ exc' = exc
         ELSE /\ Raise("FileNotFoundError")
              /\ kaggle' = kaggle
    /\ UNCHANGED <<constVars, outDir, cliCalls, buildVars, trainVars>>

\* line 55
download_chmod ==
    /\ pc = "download_chmod"
    /\ kaggle' = [kaggle EXCEPT !.mode = "0o600"]
    /\ pc' = "download_run"
    /\ UNCHANGED <<constVars, exc, outDir, cliCalls, buildVars, trainVars>>

\* lines 57-58: subprocess.run([... "kaggle" ...], check=True)
download_run ==
    /\ pc = "download_run"
    /\ cliCalls' = cliCalls + 1
    /\ IF env.kaggleOK
         THEN /\ outDir' = "nonempty"
              /\ pc' = ReturnTo("create_dataloaders")
              /\ exc' = exc
         ELSE /\ outDir' \in {outDir, "empty"}
              /\ Raise("CalledProcessError")
    /\ UNCHANGED <<constVars, kaggle, buildVars, trainVars>>

\* ------------------------------------------------- create_dataloaders

\* lines 61-77: ImageFolder raises when train/ or test/ holds no images
create_dataloaders ==
    /\ pc = "create_dataloaders"
    /\ IF outDir = "nonempty" /\ env.datasetOK
         THEN loaders' = TRUE /\ pc' = "get_model" /\ exc' = exc
         ELSE loaders' = loaders /\ Raise("FileNotFoundError")
    /\ UNCHANGED <<constVars, fsVars, model, optimizer, trainVars>>

\* ---------------------------------------------------------- get_model

\* lines 141-157
get_model ==
    /\ pc = "get_model"
    /\ LET r == GetModelResult(args.model) IN
         IF r = "ValueError_unsupported_model"
           THEN model' = model /\ Raise(r)
           ELSE model' = r /\ pc' = ReturnTo("setup") /\ exc' = exc
    /\ UNCHANGED <<constVars, fsVars, loaders, optimizer, trainVars>>

\* lines 182-188: criterion, optimizer, scheduler, device
setup ==
    /\ pc = "setup"
    /\ optimizer' = TRUE
    /\ pc' = "train_begin"
    /\ UNCHANGED <<constVars, exc, fsVars, loaders, model, trainVars>>

\* ----------------------------------------------- train_and_test_model

\* lines 81-82
train_begin ==
    /\ pc = "train_begin"
    /\ best_accuracy' = InitialBest
    /\ epoch' = 0
    /\ pc' = "epoch_loop"
    /\ UNCHANGED <<constVars, exc, fsVars, buildVars, params, i, j,
                   test_correct, test_total, test_accuracy, evalParams,
                   schedSteps, ckpt, saved_epochs, printed, accHist,
                   paramsHist>>

\* line 83 and, when the loop goes on, lines 84-87
epoch_loop ==
    /\ pc = "epoch_loop"
    /\ IF EpochsLeft(epoch, args.num_epochs)
         THEN pc' = "train_batch" /\ i' = 0
         ELSE pc' = "completed" /\ i' = i
    /\ UNCHANGED <<constVars, exc, fsVars, buildVars, params, best_accuracy,
                   epoch, j, test_correct, test_total, test_accuracy,
                   evalParams, schedSteps, ckpt, saved_epochs, printed,
                   accHist, paramsHist>>

\* lines 89-101, one batch; after the last one lines 103-109
train_batch ==
    /\ pc = "train_batch"
    /\ params' = params + 1
    /\ i' = i + 1
    /\ IF i + 1 = NumTrainBatches
         THEN /\ pc' = "test_batch"
              /\ j' = 0
              /\ test_correct' = 0
              /\ test_total' = 0
              /\ evalParams' = {}
         ELSE /\ pc' = pc
              /\ UNCHANGED <<j, test_correct, test_total, evalParams>>
    /\ UNCHANGED <<constVars, exc, fsVars, buildVars, best_accuracy, epoch,
                   test_accuracy, schedSteps, ckpt, saved_epochs, printed,
                   accHist, paramsHist>>

\* lines 112-121, one batch of one sample, predicted right or wrong
test_batch ==
    /\ pc = "test_batch"
    /\ evalParams' = evalParams \cup {params}
    /\ params' = EvalForward(params)
    /\ \E c \in 0..1 : test_correct' = test_correct + c
    /\ test_total' = test_total + 1
    /\ j' = j + 1
    /\ pc' = IF j + 1 = NumTestBatches THEN "test_end" ELSE pc
    /\ UNCHANGED <<constVars, exc, fsVars, buildVars, best_accuracy, epoch, i,
                   test_accuracy, schedSteps, ckpt, saved_epochs, printed,
                   accHist, paramsHist>>

\* lines 123-127
test_end ==
    /\ pc = "test_end"
    /\ test_accuracy' = <<test_correct, test_total>>
    /\ printed' = Append(printed, PrintedEpoch(epoch))
    /\ pc' = "sched_step"
    /\ UNCHANGED <<constVars, exc, fsVars, buildVars, params, best_accuracy,
                   epoch, i, j, test_correct, test_total, evalParams,
                   schedSteps, ckpt, saved_epochs, accHist, paramsHist>>

\* lines 129-130: the script always passes a scheduler
sched_step ==
    /\ pc = "sched_step"
    /\ schedSteps' = schedSteps + 1
    /\ pc' = "save_best"
    /\ UNCHANGED <<constVars, exc, fsVars, buildVars, params, best_accuracy,
                   epoch, i, j, test_correct, test_total, test_accuracy,
                   evalParams, ckpt, saved_epochs, printed, accHist,
                   paramsHist>>

\* lines 132-136, then back to the loop head with the next epoch
save_best ==
    /\ pc = "save_best"
    /\ IF Improves(test_accuracy, best_accuracy)
         THEN /\ best_accuracy' = test_accuracy
              /\ ckpt' = TorchSave(params, epoch)
              /\ saved_epochs' = Append(saved_epochs, epoch + 1)
         ELSE UNCHANGED <<best_accuracy, ckpt, saved_epochs>>
    /\ accHist' = Append(accHist, test_accuracy)
    /\ paramsHist' = Append(paramsHist, params)
    /\ epoch' = epoch + 1
    /\ pc' = "epoch_loop"
    /\ UNCHANGED <<constVars, exc, fsVars, buildVars, params, i, j,
                   test_correct, test_total, test_accuracy, evalParams,
                   schedSteps, printed>>

\* line 138
completed ==
    /\ pc = "completed"
    /\ pc' = "done"
    /\ UNCHANGED <<constVars, exc, fsVars, buildVars, trainVars>>

\* ------------------------------------------------------------- Spec
Next ==
    \/ parse_args
    \/ download_check
    \/ download_cred
    \/ download_makedirs
    \/ download_copy
    \/ download_chmod
    \/ download_run
    \/ create_dataloaders
    \/ get_model
    \/ setup
    \/ train_begin
    \/ epoch_loop
    \/ train_batch
    \/ test_batch
    \/ test_end
    \/ sched_step
    \/ save_best
    \/ completed

Spec == Init /\ [][Next]_vars

\* one Python thread: a statement that can run does run
FairSpec == Init /\ [][Next]_vars /\ WF_vars(Next)

\* ------------------------------------------------------------- claims
\* the accuracies and flags the claims speak of, read off the state directly
Positive(a) == a[1] * 1 > 0 * a[2]
NoCredential == args.kaggle_json \in {None, ""}
SupportedName == args.model \in {"resnet18", "resnet50"}
DownloadPcs == {"download_cred", "download_makedirs", "download_copy",
                "download_chmod", "download_run"}
TrainingPcs == {"train_begin", "epoch_loop", "train_batch", "test_batch",
                "test_end", "sched_step", "save_best", "completed", "done"}
NoTrainingYet ==
    /\ params = 0
    /\ accHist = <<>>
    /\ printed = <<>>
    /\ schedSteps = 0
    /\ saved_epochs = <<>>
    /\ ckpt = start.ckpt
NothingBuilt == ~loaders /\ model = "none" /\ ~optimizer

\* the first epoch whose accuracy no other epoch's exceeds
EarliestMax(h) ==
    CHOOSE m \in 1..Len(h) :
        /\ \A k \in 1..Len(h) : ~Gt(h[k], h[m])
        /\ \A k \in 1..(m - 1) : Gt(h[m], h[k])

\* C1: best_model.pth is written at the end of an epoch only if that epoch's
\* test accuracy is strictly greater than 0.0 and than the test accuracy of
\* every earlier epoch; an epoch that ties or falls below never writes it.
C1_WriteOnlyOnStrictImprovement ==
    [][(ckpt' # ckpt \/ saved_epochs' # saved_epochs)
         => /\ pc = "save_best"
            /\ Positive(test_accuracy)
            /\ \A k \in 1..Len(accHist) : Gt(test_accuracy, accHist[k])]_vars

\* an epoch that tied the best went by without a write
C1_Witness ==
    /\ Len(accHist) = 2
    /\ accHist[1] = accHist[2]
    /\ saved_epochs = <<1>>

\* C2: once a checkpoint has been written, it holds the parameters of the
\* earliest epoch whose test accuracy is the maximum over the completed
\* epochs, and best_accuracy is that maximum.
C2_CheckpointIsEarliestBest ==
    saved_epochs # <<>> =>
        LET m == EarliestMax(accHist) IN
            /\ ckpt.kind = "run"
            /\ ckpt.epoch = m
            /\ ckpt.params = paramsHist[m]
            /\ best_accuracy = accHist[m]

\* the maximum was reached at epoch 1 and again at epoch 3
C2_Witness ==
    /\ Len(accHist) = 3
    /\ accHist[1] = accHist[3]
    /\ Gt(accHist[1], accHist[2])
    /\ Positive(accHist[2])
    /\ ckpt.epoch = 1

\* C3: called with an output directory that exists and is non-empty,
\* download_data_from_kaggle returns without copying the credential file,
\* without changing ~/.kaggle and without invoking the download CLI; the
\* CLI is invoked only when the directory was absent or empty.
C3_PresentDataIsNotDownloaded ==
    /\ start.output_dir = "nonempty" =>
        /\ kaggle = start.kaggle
        /\ cliCalls = 0
        /\ outDir = "nonempty"
        /\ pc \notin DownloadPcs
        /\ exc \notin {"ValueError_kaggle_json", "NotADirectoryError",
                       "CalledProcessError"}
    /\ cliCalls > 0 => start.output_dir \in {"absent", "empty"}

\* the function returned to its caller with the data already there
C3_Witness ==
    /\ start.output_dir = "nonempty"
    /\ pc \in {"create_dataloaders", "returned"}
    /\ args.kaggle_json = "kaggle.json"

\* C4 as stated: with a missing credential path the run raises at once;
\* nothing is downloaded, built, trained or saved.
C4_Original ==
    (entry # "get_model" /\ NoCredential) =>
        /\ cliCalls = 0
        /\ NothingBuilt
        /\ NoTrainingYet
        /\ pc \in {"parse_args", "download_check", "download_cred", "raised"}

\* C4 amended: with a missing credential path and an output directory that
\* does not already hold data, the run raises at once; nothing is
\* downloaded, built, trained or saved.
C4_MissingCredentialRaisesWhenDownloading ==
    (entry # "get_model" /\ NoCredential /\ start.output_dir # "nonempty") =>
        /\ cliCalls = 0
        /\ outDir = start.output_dir
        /\ NothingBuilt
        /\ NoTrainingYet
        /\ pc \in {"parse_args", "download_check", "download_cred", "raised"}
        /\ exc \in {None, "SystemExit", "NotADirectoryError",
                    "ValueError_kaggle_json"}

\* the script, given an empty credential path and no data, raised
C4_Witness ==
    /\ entry = "__main__"
    /\ args.kaggle_json = ""
    /\ start.output_dir = "empty"
    /\ exc = "ValueError_kaggle_json"

\* C5: get_model raises ValueError for any name other than resnet18 and
\* resnet50 and returns no model, so no optimizer, scheduler, epoch or
\* checkpoint write follows; for the two supported names it returns that
\* model and raises nothing.
C5_UnsupportedModelRaises ==
    /\ ~SupportedName =>
        /\ model = "none"
        /\ ~optimizer
        /\ NoTrainingYet
        /\ pc \notin (TrainingPcs \cup {"setup"})
        /\ entry = "get_model" => pc \in {"get_model", "raised"}
        /\ (entry = "get_model" /\ pc = "raised")
               => exc = "ValueError_unsupported_model"
    /\ exc = "ValueError_unsupported_model" => ~SupportedName
    /\ SupportedName =>
        /\ entry = "get_model" => pc \in {"get_model", "returned"}
        /\ pc \in (TrainingPcs \cup {"setup", "returned"})
               => (entry = "download_data_from_kaggle" \/ model = args.model)

\* get_model, called with a name it does not know, raised
C5_Witness ==
    /\ exc = "ValueError_unsupported_model"
    /\ args.model = "vgg16"

\* where in an epoch the loop is, judged from the counters alone
OrderedEpochs ==
    /\ pc = "train_batch" =>
        /\ i < NumTrainBatches
        /\ params = epoch * NumTrainBatches + i
        /\ schedSteps = epoch
        /\ Len(accHist) = epoch
        /\ Len(printed) = epoch
    /\ pc = "test_batch" =>
        /\ i = NumTrainBatches
        /\ j < NumTestBatches
        /\ test_total = j
    /\ pc \in {"test_end", "sched_step", "save_best"} =>
        /\ i = NumTrainBatches
        /\ j = NumTestBatches
        /\ test_total = NumTestBatches
    /\ pc \in {"test_batch", "test_end"} =>
        /\ schedSteps = epoch
        /\ Len(printed) = epoch
    /\ pc = "sched_step" => schedSteps = epoch /\ Len(printed) = epoch + 1
    /\ pc = "save_best" => schedSteps = epoch + 1
    /\ pc \in {"test_batch", "test_end", "sched_step", "save_best"} =>
        /\ params = (epoch + 1) * NumTrainBatches
        /\ Len(accHist) = epoch
EpochsRun(n) ==
    /\ epoch = n
    /\ params = n * NumTrainBatches
    /\ Len(accHist) = n
    /\ Len(printed) = n
    /\ schedSteps = n

\* C6 as stated: exactly num_epochs epochs run, each one full training pass
\* and then one full test pass; scheduler step and checkpoint decision come
\* after the test pass and before the next epoch's first training batch.
C6_Original ==
    /\ OrderedEpochs
    /\ pc = "done" => EpochsRun(args.num_epochs)

\* C6 amended: as stated, with no epoch run when num_epochs is negative.
C6_EpochsInOrder ==
    /\ OrderedEpochs
    /\ pc = "done" =>
        EpochsRun(IF args.num_epochs < 0 THEN 0 ELSE args.num_epochs)

\* a run of MaxEpochs epochs completed
C6_Witness ==
    /\ pc = "done"
    /\ args.num_epochs = MaxEpochs
    /\ epoch = MaxEpochs

\* supported model, data present or downloadable, loaders constructible,
\* num_epochs >= 0
ValidConfig ==
    /\ entry = "__main__"
    /\ args.kaggle_json # None
    /\ SupportedName
    /\ args.num_epochs >= 0
    /\ env.datasetOK
    /\ \/ start.output_dir = "nonempty"
       \/ /\ start.output_dir \in {"absent", "empty"}
          /\ args.kaggle_json # ""
          /\ env.credFile
          /\ env.kaggleOK

\* C7: a run with a valid configuration terminates: it reaches 'Training
\* completed!' having printed one metrics line per epoch, for epochs
\* 1..num_epochs in increasing order.
C7_ValidRunCompletes ==
    ValidConfig ~>
        (pc = "done" /\ printed = [k \in 1..args.num_epochs |-> k])

\* a run that downloaded its data completed MaxEpochs epochs
C7_Witness ==
    /\ ValidConfig
    /\ pc = "done"
    /\ cliCalls = 1
    /\ Len(printed) = MaxEpochs

\* C8: on the download path the credential check comes first: with an empty
\* credential path ValueError is raised with ~/.kaggle and the output
\* directory as they were and the CLI not invoked; otherwise the credential
\* file is at ~/.kaggle/kaggle.json with mode 0600 before the CLI is invoked.
C8_CredentialCheckFirst ==
    /\ NoCredential =>
        /\ kaggle = start.kaggle
        /\ outDir = start.output_dir
        /\ cliCalls = 0
        /\ pc \notin (DownloadPcs \ {"download_cred"})
    /\ exc = "ValueError_kaggle_json" =>
        /\ NoCredential
        /\ start.output_dir \in {"absent", "empty"}
    /\ (pc = "download_run" \/ cliCalls > 0) =>
        /\ ~NoCredential
        /\ kaggle = [dir |-> TRUE, json |-> "copied", mode |-> "0o600"]

\* the CLI ran where ~/.kaggle held another file before
C8_Witness ==
    /\ cliCalls = 1
    /\ start.kaggle.json = "old"
    /\ kaggle.json = "copied"

\* C9: the parameters change only in a training batch; the test pass, the
\* scheduler step and the save leave them alone, so a checkpoint holds the
\* very parameters the epoch's test pass ran on.
C9_OnlyTrainingChangesParams ==
    [][/\ params' # params => pc = "train_batch"
       /\ saved_epochs' # saved_epochs
            => /\ ckpt'.params = params
               /\ params' = params
               /\ evalParams = {params}]_vars

\* a checkpoint was saved after a test pass and a scheduler step
C9_Witness ==
    /\ ckpt.kind = "run"
    /\ schedSteps > 0
    /\ evalParams = {ckpt.params}

\* C10: a checkpoint has been written by the run exactly if some completed
\* epoch had test accuracy above 0, and then first at the first such epoch;
\* with no epochs, or all accuracies 0, best_model.pth stays as it was.
C10_WrittenIffPositiveAccuracy ==
    LET pos == {k \in 1..Len(accHist) : Positive(accHist[k])} IN
        /\ (saved_epochs # <<>>) <=> (pos # {})
        /\ saved_epochs # <<>> =>
            /\ saved_epochs[1] \in pos
            /\ \A k \in pos : saved_epochs[1] <= k
            /\ ckpt.kind = "run"
        /\ saved_epochs = <<>> => ckpt = start.ckpt
        /\ (pc = "done" /\ args.num_epochs <= 0) => saved_epochs = <<>>

\* a run over an existing checkpoint ended with every accuracy 0
C10_Witness ==
    /\ pc = "done"
    /\ args.num_epochs = MaxEpochs
    /\ saved_epochs = <<>>
    /\ ckpt.kind = "old"

TypeOK ==
    /\ pc \in {"parse_args", "download_check", "download_cred",
               "download_makedirs", "download_copy", "download_chmod",
               "download_run", "create_dataloaders", "get_model", "setup",
               "train_begin", "epoch_loop", "train_batch", "test_batch",
               "test_end", "sched_step", "save_best", "completed", "done",
               "returned", "raised"}
    /\ (pc = "raised") = (exc # None)
====
